---- MODULE Spec2Model ----
(***************************************************************************)
(* persNamer.py: resolve a VIAF identifier to a TEI person entry.          *)
(*                                                                         *)
(* A Python str is a sequence of characters; a character is a one-letter   *)
(* TLA+ string, or "U+XXXX" for a character outside ASCII.  Python's None  *)
(* is the one-element sequence <<"None">>, which is no str.                *)
(***************************************************************************)
EXTENDS Integers, Sequences, FiniteSets, TLC

\* ------------------------------------------------------------------------
\* Bounds of the model.
\* ------------------------------------------------------------------------

\* Longest full_name handed to generate_xml_id in SlugSpec.
MaxLen == 5

\* Largest number of triples in a parsed graph.
MaxTriples == 4

\* ------------------------------------------------------------------------
\* Characters and the str methods the program uses.
\* ------------------------------------------------------------------------

None == <<"None">>

UpperSeq == <<"A","B","C","D","E","F","G","H","I","J","K","L","M",
              "N","O","P","Q","R","S","T","U","V","W","X","Y","Z">>

LowerSeq == <<"a","b","c","d","e","f","g","h","i","j","k","l","m",
              "n","o","p","q","r","s","t","u","v","w","x","y","z">>

DigitSeq == <<"0","1","2","3","4","5","6","7","8","9">>

Range(s) == {s[i] : i \in 1..Len(s)}

IndexOf(s, c) == CHOOSE i \in 1..Len(s) : s[i] = c

AsciiUpper == Range(UpperSeq)

AsciiLower == Range(LowerSeq)

AsciiDigit == Range(DigitSeq)

\* str.split() and str.strip() cut at whitespace.
Whitespace == {" "}

\* unicodedata.combining(c) # 0: U+0301 COMBINING ACUTE ACCENT.
Combining == {"U+0301"}

\* ord(c), the order sorted() compares strings by.
ord(c) ==
  CASE c \in AsciiUpper -> 64 + IndexOf(UpperSeq, c)
    [] c \in AsciiLower -> 96 + IndexOf(LowerSeq, c)
    [] c \in AsciiDigit -> 47 + IndexOf(DigitSeq, c)
    [] c = " " -> 32
    [] c = "#" -> 35
    [] c = "-" -> 45
    [] c = "." -> 46
    [] c = ":" -> 58
    [] c = ";" -> 59
    [] c = "U+00C9" -> 201
    [] c = "U+00E9" -> 233
    [] c = "U+0301" -> 769

\* str.lower() on one character.
LowerChar(c) ==
  IF c \in AsciiUpper THEN LowerSeq[IndexOf(UpperSeq, c)]
  ELSE IF c = "U+00C9" THEN "U+00E9"
  ELSE c

RECURSIVE Lower(_)
Lower(s) == IF s = <<>> THEN <<>> ELSE <<LowerChar(Head(s))>> \o Lower(Tail(s))

\* unicodedata.normalize('NFKD', c) on one character.
NFKDChar(c) ==
  IF c = "U+00C9" THEN <<"E", "U+0301">>
  ELSE IF c = "U+00E9" THEN <<"e", "U+0301">>
  ELSE <<c>>

RECURSIVE NFKD(_)
NFKD(s) == IF s = <<>> THEN <<>> ELSE NFKDChar(Head(s)) \o NFKD(Tail(s))

RECURSIVE Filter(_, _)
Filter(s, keep) ==
  IF s = <<>> THEN <<>>
  ELSE (IF Head(s) \in keep THEN <<Head(s)>> ELSE <<>>) \o Filter(Tail(s), keep)

RECURSIVE Remove(_, _)
Remove(s, drop) ==
  IF s = <<>> THEN <<>>
  ELSE (IF Head(s) \in drop THEN <<>> ELSE <<Head(s)>>) \o Remove(Tail(s), drop)

RECURSIVE LStrip(_)
LStrip(s) == IF s # <<>> /\ Head(s) \in Whitespace THEN LStrip(Tail(s)) ELSE s

RECURSIVE RStrip(_)
RStrip(s) ==
  IF s # <<>> /\ s[Len(s)] \in Whitespace THEN RStrip(SubSeq(s, 1, Len(s) - 1)) ELSE s

\* str.strip()
Strip(s) == RStrip(LStrip(s))

\* The first whitespace-free run of s, s not starting with whitespace.
RECURSIVE FirstToken(_)
FirstToken(s) ==
  IF s = <<>> \/ Head(s) \in Whitespace THEN <<>>
  ELSE <<Head(s)>> \o FirstToken(Tail(s))

\* str.split(): the sequence of maximal whitespace-free runs.
RECURSIVE Split(_)
Split(s) ==
  LET t == LStrip(s)
  IN  IF t = <<>> THEN <<>>
      ELSE LET tok == FirstToken(t)
           IN  <<tok>> \o Split(SubSeq(t, Len(tok) + 1, Len(t)))

\* bool(x) of a str or None.
Truthy(x) == x # None /\ x # <<>>

\* ------------------------------------------------------------------------
\* fix_name_spacing and generate_xml_id.
\* ------------------------------------------------------------------------

\* re.sub(r'(?<=[a-z])(?=[A-Z])', ' ', name)
RECURSIVE fix_name_spacing(_)
fix_name_spacing(name) ==
  IF Len(name) < 2 THEN name
  ELSE IF name[1] \in AsciiLower /\ name[2] \in AsciiUpper
       THEN <<name[1], " ">> \o fix_name_spacing(Tail(name))
       ELSE <<name[1]>> \o fix_name_spacing(Tail(name))

StrPers == <<"p","e","r","s","-">>

StrPersViaf == <<"p","e","r","s","-","v","i","a","f","-">>

\* Lines 36-38: NFKD, drop combining marks, drop all but [a-zA-Z0-9], lower.
family_ascii(family) ==
  Lower(Filter(Remove(NFKD(family), Combining),
               AsciiUpper \cup AsciiLower \cup AsciiDigit))

\* A variant of generate_xml_id that appends the identifier on the name path too.
generate_xml_id_viaf(full_name, viaf) ==
  IF ~Truthy(full_name) \/ Strip(full_name) = <<>>
  THEN StrPersViaf \o viaf
  ELSE LET fixed_name == fix_name_spacing(full_name)
           tokens == Split(fixed_name)
           given == IF Len(tokens) >= 2 THEN tokens[1] ELSE <<fixed_name[1]>>
           family == IF Len(tokens) >= 2 THEN tokens[Len(tokens)] ELSE fixed_name
           given_initial == IF given # <<>> THEN Lower(<<given[1]>>) ELSE <<>>
       IN  StrPers \o family_ascii(family) \o <<"-">> \o given_initial \o viaf

generate_xml_id(full_name, viaf) ==
  IF ~Truthy(full_name) \/ Strip(full_name) = <<>>
  THEN StrPersViaf \o viaf
  ELSE LET fixed_name == fix_name_spacing(full_name)
           tokens == Split(fixed_name)
           given == IF Len(tokens) >= 2 THEN tokens[1] ELSE <<fixed_name[1]>>
           family == IF Len(tokens) >= 2 THEN tokens[Len(tokens)] ELSE fixed_name
           given_initial == IF given # <<>> THEN Lower(<<given[1]>>) ELSE <<>>
       IN  StrPers \o family_ascii(family) \o <<"-">> \o given_initial

\* ------------------------------------------------------------------------
\* The program's state.
\* ------------------------------------------------------------------------

VARIABLES
  pc,             \* where the run is
  argv,           \* sys.argv
  viaf,           \* main: viaf
  requests_sent,  \* number of requests.get calls made
  rdf_bytes,      \* what fetch_viaf_rdf returned
  g,              \* parse_viaf_rdf: the parsed graph, a set of triples
  subj_i,         \* parse_viaf_rdf: position of the for loop in subjects
  name,           \* parse_viaf_rdf: name, then main: name
  birth_set,      \* parse_viaf_rdf: birth_set
  death_set,      \* parse_viaf_rdf: death_set
  birth,          \* parse_viaf_rdf: birth, then main: birth
  death,          \* parse_viaf_rdf: death, then main: death
  warning,        \* parse_viaf_rdf: warning, then main: warning
  person_entry,   \* main: person_entry
  xml_id,         \* main: xml_id
  annotation_tag, \* main: annotation_tag
  stdout,         \* the lines printed, by what they announce
  exit_status,    \* the process's exit status once pc = "exit"
  full_name,      \* generate_xml_id called on its own: full_name
  id_arg,         \* generate_xml_id called on its own: viaf of the last call
  id_result,      \* its result
  id_prev_arg,    \* viaf of the call before
  id_prev_result  \* its result

mainVars == <<pc, argv, viaf, requests_sent, rdf_bytes, g, subj_i, name, birth_set,
              death_set, birth, death, warning, person_entry, xml_id,
              annotation_tag, stdout, exit_status>>

slugVars == <<full_name, id_arg, id_result, id_prev_arg, id_prev_result>>

vars == <<mainVars, slugVars>>

\* ------------------------------------------------------------------------
\* Inputs.
\* ------------------------------------------------------------------------

\* Identifiers given on the command line.
Ids == {<<"9">>, <<"5","5">>}

\* Characters of the names given to generate_xml_id: a lowercase and an
\* uppercase ASCII letter, a digit, whitespace, punctuation, an accented
\* capital.
NameChars == {"a", "B", "1", " ", ".", "U+00C9"}

RECURSIVE StringsUpTo(_, _)
StringsUpTo(chars, n) ==
  IF n = 0 THEN {<<>>}
  ELSE LET shorter == StringsUpTo(chars, n - 1)
       IN  shorter \cup {Append(s, c) : s \in shorter, c \in chars}

Names == StringsUpTo(NameChars, MaxLen)

\* Literals of the fetched record: a name with its words run together, a blank
\* label, a full date, dates whose day is unknown, a date whose month is too.
LitName == <<"a","B">>

LitBlank == <<" ">>

LitBirthFull == <<"1","5","1","9","-","1","2","-","3","1">>

LitBirthNoDay == <<"1","5","2","0","-","0","3","-","0","0">>

LitDeathNoMonth == <<"1","5","7","0","-","0","0","-","0","0">>

LitDeathNoDay == <<"1","5","7","0","-","0","5","-","0","0">>

\* The predicates of lines 106-113.
NamePredicates == {"rdfs:label", "schema:name", "viaf:mainHead",
                   "mads:authoritativeLabel", "skos:prefLabel"}

BirthPredicates == {"viaf:birthDate", "schema:birthDate"}

DeathPredicates == {"viaf:deathDate", "schema:deathDate"}

\* URIRef(f"{scheme}://viaf.org/viaf/{viaf}") with or without a final "/".
URIRef(scheme, v, slash) == [scheme |-> scheme, viaf |-> v, slash |-> slash]

\* A variant of lines 96-101: the forms without the final "/" come first.
subjects_plain_first(v) == <<URIRef("http", v, FALSE), URIRef("http", v, TRUE),
                             URIRef("https", v, FALSE), URIRef("https", v, TRUE)>>

\* Lines 96-101.
subjects(v) == <<URIRef("http", v, TRUE), URIRef("http", v, FALSE),
                 URIRef("https", v, TRUE), URIRef("https", v, FALSE)>>

\* The (predicate, object) pairs a subject of the fetched record may carry.
PredicateObjects ==
  {<<"rdfs:label", LitName>>, <<"skos:prefLabel", LitBlank>>,
   <<"viaf:birthDate", LitBirthFull>>, <<"schema:birthDate", LitBirthNoDay>>,
   <<"viaf:deathDate", LitDeathNoMonth>>, <<"schema:deathDate", LitDeathNoDay>>}

Triples(v) == {<<s, po[1], po[2]>> : s \in Range(subjects(v)), po \in PredicateObjects}

RECURSIVE SubsetsUpTo(_, _)
SubsetsUpTo(S, k) ==
  IF k = 0 THEN {{}}
  ELSE LET smaller == SubsetsUpTo(S, k - 1)
       IN  smaller \cup {T \cup {x} : T \in smaller, x \in S}

\* The graphs g.parse may build from the bytes fetched for identifier v.
Graphs(v) == SubsetsUpTo(Triples(v), MaxTriples)

\* ------------------------------------------------------------------------
\* parse_viaf_rdf.
\* ------------------------------------------------------------------------

\* a < b as Python compares two str: by code point, a prefix first.
RECURSIVE StrLess(_, _)
StrLess(a, b) ==
  IF b = <<>> THEN FALSE
  ELSE IF a = <<>> THEN TRUE
  ELSE IF Head(a) = Head(b) THEN StrLess(Tail(a), Tail(b))
  ELSE ord(Head(a)) < ord(Head(b))

\* A variant of sorted: sorted(S, reverse=True).
RECURSIVE sorted_descending(_)
sorted_descending(S) ==
  IF S = {} THEN <<>>
  ELSE LET first == CHOOSE x \in S : \A y \in S \ {x} : StrLess(y, x)
       IN  <<first>> \o sorted_descending(S \ {first})

\* sorted(S) of a set of str.
RECURSIVE sorted(_)
sorted(S) ==
  IF S = {} THEN <<>>
  ELSE LET first == CHOOSE x \in S : \A y \in S \ {x} : StrLess(x, y)
       IN  <<first>> \o sorted(S \ {first})

\* sep.join(seq)
RECURSIVE Join(_, _)
Join(sep, seq) ==
  IF seq = <<>> THEN <<>>
  ELSE IF Len(seq) = 1 THEN seq[1]
  ELSE seq[1] \o sep \o Join(sep, Tail(seq))

\* g.predicate_objects(subj)
predicate_objects(graph, subj) == {<<t[2], t[3]>> : t \in {u \in graph : u[1] = subj}}

\* Lines 106-108: the values the name may be left with after the scan of subj.
names_of(graph, subj) ==
  {Strip(po[2]) : po \in {q \in predicate_objects(graph, subj) :
                            q[1] \in NamePredicates /\ Truthy(q[2]) /\ Strip(q[2]) # <<>>}}

\* Lines 109-112: the values the scan of subj adds to birth_set.
births_of(graph, subj) ==
  {Strip(po[2]) : po \in {q \in predicate_objects(graph, subj) :
                            q[1] \in BirthPredicates}} \ {<<>>}

\* Lines 113-116: the values the scan of subj adds to death_set.
deaths_of(graph, subj) ==
  {Strip(po[2]) : po \in {q \in predicate_objects(graph, subj) :
                            q[1] \in DeathPredicates}} \ {<<>>}

\* A variant of line 120: if name
found_name_only(n, births, deaths) == Truthy(n)

\* Line 120: if name or birth_set or death_set
found(n, births, deaths) == Truthy(n) \/ births # {} \/ deaths # {}

\* A variant of lines 126-130 that leaves a date with month 00 alone.
fix_date_real_month(date_str) ==
  IF /\ Len(date_str) = 10
     /\ \A k \in {1, 2, 3, 4, 6, 7} : date_str[k] \in AsciiDigit
     /\ ~(date_str[6] = "0" /\ date_str[7] = "0")
     /\ date_str[5] = "-"
     /\ date_str[8] = "-"
     /\ date_str[9] = "0"
     /\ date_str[10] = "0"
  THEN SubSeq(date_str, 1, 4)
  ELSE date_str

\* Lines 126-130: re.match(r'^(\d{4})-(\d{2})-00$', date_str)
fix_date(date_str) ==
  IF /\ Len(date_str) = 10
     /\ \A k \in {1, 2, 3, 4, 6, 7} : date_str[k] \in AsciiDigit
     /\ date_str[5] = "-"
     /\ date_str[8] = "-"
     /\ date_str[9] = "0"
     /\ date_str[10] = "0"
  THEN SubSeq(date_str, 1, 4)
  ELSE date_str

StrMultipleBirth == <<"M","u","l","t","i","p","l","e"," ","b","i","r","t","h"," ","d","a","t","e","s",":"," ">>

StrMultipleDeath == <<"M","u","l","t","i","p","l","e"," ","d","e","a","t","h"," ","d","a","t","e","s",":"," ">>

\* Lines 137-142.
warning_of(births, deaths) ==
  LET warning_parts ==
        (IF Cardinality(births) > 1
         THEN <<StrMultipleBirth \o Join(<<";", " ">>, sorted(births))>> ELSE <<>>)
        \o
        (IF Cardinality(deaths) > 1
         THEN <<StrMultipleDeath \o Join(<<";", " ">>, sorted(deaths))>> ELSE <<>>)
  IN  IF warning_parts # <<>> THEN Join(<<" ">>, warning_parts) ELSE None

\* ------------------------------------------------------------------------
\* create_person_entry and create_annotation_tag.
\* ------------------------------------------------------------------------

\* An lxml element: its tag, its attributes in order, its text, its children.
Element(tag, attrib, text, children) ==
  [tag |-> tag, attrib |-> attrib, text |-> text, children |-> children]

\* The value of a variable that holds no element yet.
NoElement == Element("", <<>>, None, <<>>)

StrUnknownName == <<"U","n","k","n","o","w","n"," ","N","a","m","e">>

StrVIAF == <<"V","I","A","F">>

StrWarning == <<"w","a","r","n","i","n","g">>

\* A variant of lines 161-184 without the test of line 169.
create_person_entry_always_birth(v, n, b, d, warning_note) ==
  LET id == IF Truthy(n) /\ Strip(n) # <<>>
            THEN generate_xml_id(n, v) ELSE StrPersViaf \o v
      persName == Element("persName", <<>>, IF Truthy(n) THEN n ELSE StrUnknownName, <<>>)
      birth_el == <<Element("birth", <<>>, b, <<>>)>>
      death_el == IF Truthy(d) THEN <<Element("death", <<>>, d, <<>>)>> ELSE <<>>
      idno == Element("idno", << <<"type", StrVIAF>> >>, v, <<>>)
      note == IF Truthy(warning_note)
              THEN <<Element("note", << <<"type", StrWarning>> >>, warning_note, <<>>)>>
              ELSE <<>>
  IN  Element("person", << <<"xml:id", id>> >>, None,
              <<persName>> \o birth_el \o death_el \o <<idno>> \o note)

\* Lines 161-184.
create_person_entry(v, n, b, d, warning_note) ==
  LET id == IF Truthy(n) /\ Strip(n) # <<>>
            THEN generate_xml_id(n, v) ELSE StrPersViaf \o v
      persName == Element("persName", <<>>, IF Truthy(n) THEN n ELSE StrUnknownName, <<>>)
      birth_el == IF Truthy(b) THEN <<Element("birth", <<>>, b, <<>>)>> ELSE <<>>
      death_el == IF Truthy(d) THEN <<Element("death", <<>>, d, <<>>)>> ELSE <<>>
      idno == Element("idno", << <<"type", StrVIAF>> >>, v, <<>>)
      note == IF Truthy(warning_note)
              THEN <<Element("note", << <<"type", StrWarning>> >>, warning_note, <<>>)>>
              ELSE <<>>
  IN  Element("person", << <<"xml:id", id>> >>, None,
              <<persName>> \o birth_el \o death_el \o <<idno>> \o note)

\* element.get(key)
Get(element, key) ==
  IF \E k \in 1..Len(element.attrib) : element.attrib[k][1] = key
  THEN element.attrib[CHOOSE k \in 1..Len(element.attrib) : element.attrib[k][1] = key][2]
  ELSE None

\* A variant of lines 191-193 whose ref lacks the "#".
create_annotation_tag_no_hash(id, n) ==
  Element("persName", << <<"ref", id>> >>,
          IF Truthy(n) THEN n ELSE StrUnknownName, <<>>)

\* Lines 191-193.
create_annotation_tag(id, n) ==
  Element("persName", << <<"ref", <<"#">> \o id>> >>,
          IF Truthy(n) THEN n ELSE StrUnknownName, <<>>)

\* ------------------------------------------------------------------------
\* The run of main().
\* ------------------------------------------------------------------------

\* sys.argv: the script, then no, one or two arguments.
ArgVectors ==
  {<<"persNamer.py">>}
    \cup {<<"persNamer.py", v>> : v \in Ids}
    \cup {<<"persNamer.py", v, w>> : v \in Ids, w \in Ids}

\* What response.content may hold: RDF/XML, XML that is no valid RDF, no XML.
Bytes == {"rdf_xml", "invalid_rdf", "not_xml"}

\* The variables of main() before it runs.
MainStart ==
  /\ viaf = None
  /\ requests_sent = 0
  /\ rdf_bytes = "none"
  /\ g = {}
  /\ subj_i = 0
  /\ name = None
  /\ birth_set = {}
  /\ death_set = {}
  /\ birth = None
  /\ death = None
  /\ warning = None
  /\ person_entry = NoElement
  /\ xml_id = None
  /\ annotation_tag = NoElement
  /\ stdout = <<>>
  /\ exit_status = -1

SlugIdle ==
  /\ full_name = None
  /\ id_arg = None
  /\ id_result = None
  /\ id_prev_arg = None
  /\ id_prev_result = None

Init ==
  /\ pc = "main"
  /\ argv \in ArgVectors
  /\ MainStart
  /\ SlugIdle

\* sys.exit(status)
Exit(status) ==
  /\ pc' = "exit"
  /\ exit_status' = status

\* Lines 196-198.
MainUsage ==
  /\ pc = "main"
  /\ Len(argv) # 2
  /\ stdout' = Append(stdout, "Usage: persNamer.py <VIAF number>")
  /\ Exit(1)
  /\ UNCHANGED <<argv, viaf, requests_sent, rdf_bytes, g, subj_i, name, birth_set,
                 death_set, birth, death, warning, person_entry, xml_id,
                 annotation_tag, slugVars>>

\* Lines 199-200.
MainArgs ==
  /\ pc = "main"
  /\ Len(argv) = 2
  /\ viaf' = argv[2]
  /\ stdout' = Append(stdout, "Processing VIAF number")
  /\ pc' = "fetch"
  /\ UNCHANGED <<argv, requests_sent, rdf_bytes, g, subj_i, name, birth_set,
                 death_set, birth, death, warning, person_entry, xml_id,
                 annotation_tag, exit_status, slugVars>>

\* Lines 47-58: the request succeeds.
FetchOk ==
  /\ pc = "fetch"
  /\ requests_sent' = requests_sent + 1
  /\ \E content \in Bytes : rdf_bytes' = content
  /\ stdout' = stdout \o <<"Starting to fetch VIAF record (RDF)...",
                           "Fetching data from URL",
                           "Successfully fetched VIAF RDF data.">>
  /\ pc' = "parse"
  /\ UNCHANGED <<argv, viaf, g, subj_i, name, birth_set, death_set, birth, death,
                 warning, person_entry, xml_id, annotation_tag, exit_status,
                 slugVars>>

\* A variant of the handlers of lines 59-64 without sys.exit(1): the function
\* returns None to main.
fetch_failed_no_exit(line) ==
  /\ stdout' = stdout \o <<"Starting to fetch VIAF record (RDF)...",
                           "Fetching data from URL", line>>
  /\ pc' = "parse"
  /\ UNCHANGED <<rdf_bytes, exit_status>>

\* What fetch_viaf_rdf does when requests.get or raise_for_status raises.
fetch_failed(line) ==
  /\ stdout' = stdout \o <<"Starting to fetch VIAF record (RDF)...",
                           "Fetching data from URL", line>>
  /\ Exit(1)
  /\ UNCHANGED <<rdf_bytes>>

\* Lines 59-61: raise_for_status raises HTTPError.
FetchHTTPError ==
  /\ pc = "fetch"
  /\ requests_sent' = requests_sent + 1
  /\ fetch_failed("HTTP error while fetching VIAF record")
  /\ UNCHANGED <<argv, viaf, g, subj_i, name, birth_set, death_set, birth, death,
                 warning, person_entry, xml_id, annotation_tag, slugVars>>

\* Lines 62-64: requests.get raises another RequestException.
FetchRequestException ==
  /\ pc = "fetch"
  /\ requests_sent' = requests_sent + 1
  /\ fetch_failed("Network error while fetching VIAF record")
  /\ UNCHANGED <<argv, viaf, g, subj_i, name, birth_set, death_set, birth, death,
                 warning, person_entry, xml_id, annotation_tag, slugVars>>

\* What parse_viaf_rdf does when g.parse raises.
parse_failed(lines) ==
  /\ stdout' = stdout \o <<"Parsing RDF data with rdflib, forcing format='xml'...">>
                      \o lines
  /\ Exit(1)
  /\ UNCHANGED <<g, subj_i, name, birth_set, death_set>>

\* Lines 77-85: g.parse raises ParserError; sys.exit(message) exits with 1.
ParseParserError ==
  /\ pc = "parse"
  /\ rdf_bytes = "invalid_rdf"
  /\ parse_failed(<<"RDF/XML parser error. The data might be malformed RDF or HTML.",
                    "Raw response (truncated):", "rdf_bytes[:2000]">>)
  /\ UNCHANGED <<argv, viaf, requests_sent, rdf_bytes, birth, death, warning,
                 person_entry, xml_id, annotation_tag, slugVars>>

\* Lines 79-80: g.parse raises an exception that is no ParserError (the SAX
\* parser's, on bytes that are no XML); nothing catches it and the interpreter
\* exits with 1.
ParseUncaught ==
  /\ pc = "parse"
  /\ rdf_bytes = "not_xml"
  /\ parse_failed(<<>>)
  /\ UNCHANGED <<argv, viaf, requests_sent, rdf_bytes, birth, death, warning,
                 person_entry, xml_id, annotation_tag, slugVars>>

\* Lines 77-101: g.parse succeeds.
ParseOk ==
  /\ pc = "parse"
  /\ rdf_bytes = "rdf_xml"
  /\ \E graph \in Graphs(viaf) : g' = graph
  /\ name' = None
  /\ birth_set' = {}
  /\ death_set' = {}
  /\ subj_i' = 1
  /\ stdout' = Append(stdout, "Parsing RDF data with rdflib, forcing format='xml'...")
  /\ pc' = "for_subj"
  /\ UNCHANGED <<argv, viaf, requests_sent, rdf_bytes, birth, death, warning,
                 person_entry, xml_id, annotation_tag, exit_status, slugVars>>

\* Lines 118-121, one turn of the loop: extract_from_subject(subj), lines
\* 103-116, then the test that ends the loop.  The pairs come in the store's
\* order, so any name of the subject may be the last one assigned.
ForSubject ==
  /\ pc = "for_subj"
  /\ LET subj == subjects(viaf)[subj_i]
         names == names_of(g, subj)
     IN  /\ \E n \in (IF names = {} THEN {name} ELSE names) : name' = n
         /\ birth_set' = birth_set \cup births_of(g, subj)
         /\ death_set' = death_set \cup deaths_of(g, subj)
  /\ IF found(name', birth_set', death_set') \/ subj_i = Len(subjects(viaf))
     THEN pc' = "select" /\ UNCHANGED subj_i
     ELSE pc' = "for_subj" /\ subj_i' = subj_i + 1
  /\ UNCHANGED <<argv, viaf, requests_sent, rdf_bytes, g, birth, death, warning,
                 person_entry, xml_id, annotation_tag, stdout, exit_status,
                 slugVars>>

\* Lines 123-124.
SelectDates ==
  /\ pc = "select"
  /\ birth' = IF birth_set # {} THEN sorted(birth_set)[1] ELSE None
  /\ death' = IF death_set # {} THEN sorted(death_set)[1] ELSE None
  /\ pc' = "fix_dates"
  /\ UNCHANGED <<argv, viaf, requests_sent, rdf_bytes, g, subj_i, name, birth_set,
                 death_set, warning, person_entry, xml_id, annotation_tag, stdout,
                 exit_status, slugVars>>

\* Lines 132-135.
FixDates ==
  /\ pc = "fix_dates"
  /\ birth' = IF Truthy(birth) THEN fix_date(birth) ELSE birth
  /\ death' = IF Truthy(death) THEN fix_date(death) ELSE death
  /\ pc' = "warning"
  /\ UNCHANGED <<argv, viaf, requests_sent, rdf_bytes, g, subj_i, name, birth_set,
                 death_set, warning, person_entry, xml_id, annotation_tag, stdout,
                 exit_status, slugVars>>

\* Lines 137-146.
BuildWarning ==
  /\ pc = "warning"
  /\ warning' = warning_of(birth_set, death_set)
  /\ name' = IF Truthy(name) THEN fix_name_spacing(name) ELSE name
  /\ pc' = "return"
  /\ UNCHANGED <<argv, viaf, requests_sent, rdf_bytes, g, subj_i, birth_set,
                 death_set, birth, death, person_entry, xml_id, annotation_tag,
                 stdout, exit_status, slugVars>>

\* Lines 148 and 203-210: parse_viaf_rdf returns, its locals are gone, and main
\* prints what was found.
Return ==
  /\ pc = "return"
  /\ g' = {}
  /\ subj_i' = 0
  /\ birth_set' = {}
  /\ death_set' = {}
  /\ stdout' = stdout \o <<"Name found", "Birth date found", "Death date found">>
                      \o (IF Truthy(warning) THEN <<"Warning">> ELSE <<>>)
                      \o <<"Creating TEI XML entry for the authority file...">>
  /\ pc' = "create_entry"
  /\ UNCHANGED <<argv, viaf, requests_sent, rdf_bytes, name, birth, death, warning,
                 person_entry, xml_id, annotation_tag, exit_status, slugVars>>

\* Lines 212-213.
CreateEntry ==
  /\ pc = "create_entry"
  /\ person_entry' = create_person_entry(viaf, name, birth, death, warning)
  /\ xml_id' = Get(person_entry', "xml:id")
  /\ stdout' = stdout \o <<"Creating TEI XML entry for the authority file...",
                           "TEI entry created successfully.">>
  /\ pc' = "create_annotation"
  /\ UNCHANGED <<argv, viaf, requests_sent, rdf_bytes, g, subj_i, name, birth_set,
                 death_set, birth, death, warning, annotation_tag, exit_status,
                 slugVars>>

\* Line 214.
CreateAnnotation ==
  /\ pc = "create_annotation"
  /\ annotation_tag' = create_annotation_tag(xml_id, name)
  /\ pc' = "print"
  /\ UNCHANGED <<argv, viaf, requests_sent, rdf_bytes, g, subj_i, name, birth_set,
                 death_set, birth, death, warning, person_entry, xml_id, stdout,
                 exit_status, slugVars>>

\* Lines 216-223, and the interpreter leaving with status 0.
PrintResults ==
  /\ pc = "print"
  /\ stdout' = stdout \o <<"Final TEI Authority XML entry:", "authority_xml",
                           "Final Annotation tag for TEI text (to be used separately):",
                           "annotation_xml">>
  /\ Exit(0)
  /\ UNCHANGED <<argv, viaf, requests_sent, rdf_bytes, g, subj_i, name, birth_set,
                 death_set, birth, death, warning, person_entry, xml_id,
                 annotation_tag, slugVars>>

Next ==
  \/ MainUsage
  \/ MainArgs
  \/ FetchOk
  \/ FetchHTTPError
  \/ FetchRequestException
  \/ ParseParserError
  \/ ParseUncaught
  \/ ParseOk
  \/ ForSubject
  \/ SelectDates
  \/ FixDates
  \/ BuildWarning
  \/ Return
  \/ CreateEntry
  \/ CreateAnnotation
  \/ PrintResults

Spec == Init /\ [][Next]_vars

\* ------------------------------------------------------------------------
\* generate_xml_id called on its own, the module imported and main() not run.
\* ------------------------------------------------------------------------

SlugInit ==
  /\ pc = "imported"
  /\ argv = <<>>
  /\ MainStart
  /\ full_name \in Names \cup {None}
  /\ id_arg = None
  /\ id_result = None
  /\ id_prev_arg = None
  /\ id_prev_result = None

\* One call generate_xml_id(full_name, v); the call before it is remembered.
CallGenerateXmlId ==
  /\ pc = "imported"
  /\ \E v \in Ids :
       /\ id_arg' = v
       /\ id_result' = generate_xml_id(full_name, v)
  /\ id_prev_arg' = id_arg
  /\ id_prev_result' = id_result
  /\ UNCHANGED <<mainVars, full_name>>

SlugNext == CallGenerateXmlId

SlugSpec == SlugInit /\ [][SlugNext]_vars

\* ------------------------------------------------------------------------
\* Properties of generate_xml_id (SlugSpec).
\* ------------------------------------------------------------------------

\* A name that is empty or all whitespace.
IsBlank(n) == \A k \in 1..Len(n) : n[k] \in Whitespace

\* generate_xml_id has been called on a name that is not blank.
CalledOnName == full_name # None /\ ~IsBlank(full_name) /\ id_result # None

\* s is 'pers-', letters and digits, '-', letters and digits.
IsPlainSlug(s) ==
  /\ Len(s) >= 6
  /\ SubSeq(s, 1, 5) = StrPers
  /\ \E h \in 6..Len(s) :
       /\ s[h] = "-"
       /\ \A k \in (6..Len(s)) \ {h} : s[k] \in AsciiLower \cup AsciiDigit

\* C1: for every name that is not blank and every identifier, the slug is
\* 'pers-', the family part, '-' and the given initial, and every character of
\* the two parts is an ASCII lowercase letter or digit.
C1_SlugIsAsciiLowerAlnum == CalledOnName => IsPlainSlug(id_result)

\* The tokens of a name after spacing repair.
TokensOf(n) == Split(fix_name_spacing(n))

\* The slug that the tokens of name n give: the last token as the family (the
\* only token when there is one) and the first character of the first token.
SlugOfTokens(n) ==
  LET tokens == TokensOf(n)
  IN  StrPers \o family_ascii(tokens[Len(tokens)]) \o <<"-">>
        \o Lower(<<tokens[1][1]>>)

\* C4: for every name that is not blank, leading or trailing whitespace
\* included, the slug is 'pers-' + normalized family + '-' + given initial, the
\* family being the last token and the initial the lowercased first character
\* of the first token.
C4_SlugFromFirstAndLastToken == CalledOnName => id_result = SlugOfTokens(full_name)

\* C10: the identifier shows in the slug only for a blank name: a blank name
\* gives 'pers-viaf-' + identifier verbatim, and for a name that is not blank
\* two calls, with the same or with different identifiers, give the same slug.
C10_IdentifierOnlyInFallback ==
  /\ (full_name # None /\ IsBlank(full_name) /\ id_result # None)
       => id_result = StrPersViaf \o id_arg
  /\ (CalledOnName /\ id_prev_result # None) => id_result = id_prev_result

\* Two calls on a name of two tokens with different identifiers.
C10_Witness ==
  /\ CalledOnName
  /\ Len(TokensOf(full_name)) >= 2
  /\ id_prev_result # None
  /\ id_prev_arg # id_arg

\* ------------------------------------------------------------------------
\* Properties of the run of main() (Spec).
\* ------------------------------------------------------------------------

\* parse_viaf_rdf has left its loop and not yet returned.
AfterLoop == pc \in {"select", "fix_dates", "warning", "return"}

\* The values of the predicates preds on subject s in g, trimmed, blanks left out.
ValuesOn(s, preds) ==
  {Strip(t[3]) : t \in {u \in g : u[1] = s /\ u[2] \in preds}} \ {<<>>}

\* Subject s carries a NAME, BIRTH or DEATH value that is not blank.
Carries(s) ==
  ValuesOn(s, NamePredicates \cup BirthPredicates \cup DeathPredicates) # {}

\* What the loop collected is what subject s carries.
TakenFrom(s) ==
  /\ birth_set = ValuesOn(s, BirthPredicates)
  /\ death_set = ValuesOn(s, DeathPredicates)
  /\ IF ValuesOn(s, NamePredicates) = {}
     THEN name = None
     ELSE name \in ValuesOn(s, NamePredicates)

\* The same once the name has had its spacing repaired, at the return.
ReturnedFrom(s) ==
  /\ birth_set = ValuesOn(s, BirthPredicates)
  /\ death_set = ValuesOn(s, DeathPredicates)
  /\ IF ValuesOn(s, NamePredicates) = {}
     THEN name = None
     ELSE \E n \in ValuesOn(s, NamePredicates) : name = fix_name_spacing(n)

\* The first subject of order that carries values is the one taken.
FirstCarrierTaken(order) ==
  LET carriers == {k \in 1..Len(order) : Carries(order[k])}
  IN  Cardinality(carriers) >= 2 =>
        TakenFrom(order[CHOOSE k \in carriers : \A j \in carriers : k <= j])

\* http without the final "/", http with it, https without, https with.
PlainFirstOrder(v) == <<URIRef("http", v, FALSE), URIRef("http", v, TRUE),
                        URIRef("https", v, FALSE), URIRef("https", v, TRUE)>>

\* http with the final "/", http without it, https with, https without.
SlashFirstOrder(v) == <<URIRef("http", v, TRUE), URIRef("http", v, FALSE),
                        URIRef("https", v, TRUE), URIRef("https", v, FALSE)>>

\* C2 as stated: when two or more of the four forms carry values, the record
\* is taken from the earliest in the order http without "/", http with "/",
\* https without "/", https with "/".
C2_PlainFormFirst == pc = "select" => FirstCarrierTaken(PlainFirstOrder(viaf))

\* C2 amended: when two or more of the four forms carry values that are not
\* blank, the record is taken from the earliest in the order http with "/",
\* http without "/", https with "/", https without "/".
C2_SlashFormFirst == pc = "select" => FirstCarrierTaken(SlashFirstOrder(viaf))

\* Both http forms carry values, different ones, and the loop has ended.
C2_Witness ==
  /\ pc = "select"
  /\ Carries(URIRef("http", viaf, TRUE))
  /\ Carries(URIRef("http", viaf, FALSE))
  /\ ValuesOn(URIRef("http", viaf, TRUE), BirthPredicates)
       # ValuesOn(URIRef("http", viaf, FALSE), BirthPredicates)

\* The least of a set of str that is not empty.
Least(S) == CHOOSE x \in S : \A y \in S : x = y \/ StrLess(x, y)

\* date has the shape DDDD-DD-00.
HasDayZeroShape(date) ==
  /\ Len(date) = 10
  /\ \A k \in {1, 2, 3, 4, 6, 7} : date[k] \in AsciiDigit
  /\ date[5] = "-" /\ date[8] = "-"
  /\ date[9] = "0" /\ date[10] = "0"

\* The month of a date of that shape is not 00.
HasRealMonth(date) == ~(date[6] = "0" /\ date[7] = "0")

\* What the selected value of set S is after the repair, by the rule `rewrite`.
Repaired(S, rewrite(_)) ==
  IF S = {} THEN None
  ELSE IF rewrite(Least(S)) THEN SubSeq(Least(S), 1, 4) ELSE Least(S)

NarrowRule(date) == HasDayZeroShape(date) /\ HasRealMonth(date)

Winner ==
  LET carriers == {k \in 1..Len(subjects(viaf)) : Carries(subjects(viaf)[k])}
  IN  IF carriers = {} THEN 0 ELSE CHOOSE k \in carriers : \A j \in carriers : k <= j

\* The one listing of S in ascending order.
Ascending(S) ==
  CHOOSE seq \in [1..Cardinality(S) -> S] :
    \A j \in 1..Cardinality(S), k \in 1..Cardinality(S) :
      j < k => StrLess(seq[j], seq[k])

\* The sentence on set S, headed by head, when S has several values.
Sentence(head, S) ==
  IF Cardinality(S) > 1 THEN <<head \o Join(<<";", " ">>, Ascending(S))>> ELSE <<>>

\* C5: the birth (the death) selected is the least, as strings compare, of the
\* BIRTH (DEATH) values of the winning subject that are not blank; there is a
\* warning exactly when one of the two sets has several values, and it lists
\* the values of each such set in ascending order, births before deaths.
C5_LeastSelectedAndWarning ==
  /\ (pc = "fix_dates" /\ Winner # 0) =>
       LET births == ValuesOn(subjects(viaf)[Winner], BirthPredicates)
           deaths == ValuesOn(subjects(viaf)[Winner], DeathPredicates)
       IN  /\ birth = IF births = {} THEN None ELSE Least(births)
           /\ death = IF deaths = {} THEN None ELSE Least(deaths)
  /\ (pc = "return" /\ Winner # 0) =>
       LET births == ValuesOn(subjects(viaf)[Winner], BirthPredicates)
           deaths == ValuesOn(subjects(viaf)[Winner], DeathPredicates)
           sentences == Sentence(StrMultipleBirth, births)
                          \o Sentence(StrMultipleDeath, deaths)
       IN  /\ (warning # None) <=> (Cardinality(births) > 1 \/ Cardinality(deaths) > 1)
           /\ warning # None => warning = Join(<<" ">>, sentences)

\* The winning subject has two births and two deaths and the warning is built.
C5_Witness ==
  /\ pc = "return"
  /\ Cardinality(birth_set) = 2
  /\ Cardinality(death_set) = 2
  /\ warning # None

\* C6: the loop stops at the first subject, in its order, that carries a NAME,
\* BIRTH or DEATH value that is not blank: no subject is scanned after one
\* that carries values, what is collected is what that subject carries, and
\* when no subject carries anything name, birth, death and warning are all
\* None and the run ends with status 0.
C6_StopsAtFirstContributor ==
  /\ pc = "for_subj" => \A k \in 1..(subj_i - 1) : ~Carries(subjects(viaf)[k])
  /\ (AfterLoop /\ Winner # 0) =>
       /\ subj_i = Winner
       /\ IF pc = "return"
          THEN ReturnedFrom(subjects(viaf)[Winner])
          ELSE TakenFrom(subjects(viaf)[Winner])
  /\ (AfterLoop /\ Winner = 0) =>
       /\ subj_i = Len(subjects(viaf))
       /\ name = None /\ birth_set = {} /\ death_set = {}
  /\ (pc = "return" /\ Winner = 0) => birth = None /\ death = None /\ warning = None
  /\ (pc = "exit" /\ rdf_bytes = "rdf_xml") => exit_status = 0

\* The loop stopped at the second subject: the first carries a blank label
\* only and a later one carries values too.
C6_Witness ==
  /\ pc = "return"
  /\ Winner = 2
  /\ predicate_objects(g, subjects(viaf)[1]) # {}
  /\ \E k \in 3..4 : Carries(subjects(viaf)[k])

UsageError == Len(argv) # 2

FetchFailure == requests_sent > 0 /\ rdf_bytes = "none"

ParseFailure == rdf_bytes \in {"invalid_rdf", "not_xml"}

\* C7: on a usage error, a fetch failure or a parse failure the run ends at
\* that stage with a status that is not 0: there is one request at most, no
\* later stage runs, and no entry and no annotation is built or printed.
C7_FatalErrorsStopTheRun ==
  /\ requests_sent <= 1
  /\ UsageError =>
       /\ pc \in {"main", "exit"}
       /\ requests_sent = 0
  /\ FetchFailure =>
       /\ pc = "exit"
       /\ "Parsing RDF data with rdflib, forcing format='xml'..." \notin Range(stdout)
  /\ ParseFailure => pc \in {"parse", "exit"}
  /\ (UsageError \/ FetchFailure \/ ParseFailure) =>
       /\ pc = "exit" => exit_status # 0
       /\ subj_i = 0
       /\ person_entry = NoElement
       /\ annotation_tag = NoElement
       /\ "authority_xml" \notin Range(stdout)
       /\ "annotation_xml" \notin Range(stdout)

\* The run has ended on a failed request.
C7_Witness == pc = "exit" /\ FetchFailure /\ exit_status = 1

\* The tags, and the texts, of the children of an element.
ChildTags(e) == [k \in 1..Len(e.children) |-> e.children[k].tag]

ChildTexts(e) == [k \in 1..Len(e.children) |-> e.children[k].text]

\* <<x>> when cond holds, nothing otherwise.
Opt(cond, x) == IF cond THEN <<x>> ELSE <<>>

\* C8: the entry is a person element whose identifier is the slug of (name,
\* identifier) and whose children are, in this order, one persName (the name,
\* or 'Unknown Name'), a birth iff birth is not empty, a death iff death is
\* not empty, one idno of type VIAF with the identifier, and a note of type
\* warning iff there is a warning.
C8_EntryChildren ==
  person_entry # NoElement =>
    /\ person_entry.tag = "person"
    /\ person_entry.attrib = << <<"xml:id", generate_xml_id(name, viaf)>> >>
    /\ ChildTags(person_entry) =
         <<"persName">> \o Opt(Truthy(birth), "birth") \o Opt(Truthy(death), "death")
           \o <<"idno">> \o Opt(warning # None, "note")
    /\ ChildTexts(person_entry) =
         <<IF name = None THEN StrUnknownName ELSE name>>
           \o Opt(Truthy(birth), birth) \o Opt(Truthy(death), death)
           \o <<viaf>> \o Opt(warning # None, warning)
    /\ \A k \in 1..Len(person_entry.children) :
         person_entry.children[k].attrib =
           IF person_entry.children[k].tag = "idno" THEN << <<"type", StrVIAF>> >>
           ELSE IF person_entry.children[k].tag = "note" THEN << <<"type", StrWarning>> >>
           ELSE <<>>

\* An entry with a name, a birth, no death and a warning.
C8_Witness ==
  /\ person_entry # NoElement
  /\ name # None
  /\ ChildTags(person_entry) = <<"persName", "birth", "idno", "note">>

\* C9: in a run that completes, the annotation's ref is '#' followed by the
\* identifier attribute of the entry, and its text is the text of the entry's
\* persName child.
C9_AnnotationRefersToEntry ==
  annotation_tag # NoElement =>
    /\ annotation_tag.tag = "persName"
    /\ annotation_tag.attrib = << <<"ref", <<"#">> \o Get(person_entry, "xml:id")>> >>
    /\ annotation_tag.text = person_entry.children[1].text

\* A run that completed with a name found.
C9_Witness ==
  /\ pc = "exit"
  /\ exit_status = 0
  /\ name # None
  /\ annotation_tag # NoElement

====
